---- MODULE Spec2Model ----
(***************************************************************************)
(* Churn prediction stack: the prediction service (api.py, POST /predict)  *)
(* and the Streamlit dashboard (dashboard.py) that calls it.               *)
(*                                                                         *)
(* Numbers.  tenure and monthly are whole numbers (months, dollars).  A    *)
(* prediction is a float; it is represented in units of 1/Scale, so that   *)
(* 0.29, 0.30, 0.45, 0.59, 0.60 and 1.0 are 145, 150, 225, 295, 300, 500.  *)
(* JSON values are tagged: Num(n), Str(s), Null.                           *)
(***************************************************************************)
EXTENDS Integers, Sequences, FiniteSets, TLC

VARIABLES
    tenure,       \* dashboard: value of the "Customer Tenure" slider
    monthly,      \* dashboard: value of the "Monthly Charges" slider
    techsupport,  \* dashboard: value of the "Tech Support" toggle
    submitted,    \* dashboard: return value of form_submit_button in the current script run
    pc,           \* dashboard: "idle" (script run finished) or "calling" (blocked in requests.post)
    calls,        \* dashboard: outbound HTTP calls issued by the current script run
    reply,        \* what the outbound call of the current script run got back
    display,      \* dashboard: elements rendered by the current script run, in order
    handled,      \* service: how predict handled the current call (NoExchange until it ran)
    runs,         \* observer: number of submissions so far
    earlier       \* observer: one earlier submission, kept to compare a later one with

vars == <<tenure, monthly, techsupport, submitted, pc, calls, reply, display, handled,
          runs, earlier>>

-----------------------------------------------------------------------------
(* Values *)

Scale == 500

\* Submissions followed.
MaxRuns == 3

Num(n) == [kind |-> "num", n |-> n]
Str(s) == [kind |-> "str", s |-> s]
Null == [kind |-> "null"]

DEV_API == "http://127.0.0.1:8000/predict"
PROD_API == "https://predictingforjay.azurewebsites.net/api/predict"

\* Slider positions the user can choose (slider range 0..120 step 1, 0..1000 step 5).
Tenures == {11, 12, 24, 49}
Monthlies == {45, 70, 205}

\* The submissions repeated under observation.
RepeatTenures == {11, 24}
RepeatMonthlies == {70, 205}

DefaultTenure == 24
DefaultMonthly == 70

\* Values make_prediction can return, in 1/Scale: probabilities in [0,1].
Predictions == {0, 145, 150, 225, 226, 295, 300, 500}

\* make_prediction either returns a number or raises.
ModelOutcomes ==
    [kind : {"value"}, n : Predictions] \cup [kind : {"raise"}, message : {"model failure"}]

\* Requests sent to /predict by callers other than the dashboard.
DirectRequests == [tenure : {-3, 0, 24}, monthly : {-20, 0, 70}, techsupport : {0, 1}]

NoReply == [kind |-> "none"]
NoExchange == [kind |-> "none"]
NoRun == [kind |-> "none"]

-----------------------------------------------------------------------------
(* Prediction service: api.py *)

\* Mutant: negative values are clamped to zero before the model sees them.
model_args_clamped(request) ==
    [tenure |-> IF request.tenure < 0 THEN 0 ELSE request.tenure,
     MonthlyCharges |-> IF request.monthly < 0 THEN 0 ELSE request.monthly,
     TechSupport_yes |-> request.techsupport]

\* Keyword arguments of the make_prediction call.
model_args(request) ==
    [tenure |-> request.tenure,
     MonthlyCharges |-> request.monthly,
     TechSupport_yes |-> request.techsupport]

\* The model calls predict makes for one request.
model_calls(request) == <<model_args(request)>>

\* Mutant: the error body carries a default prediction.
predict_error_with_default(request, outcome) ==
    IF outcome.kind = "raise"
    THEN [error |-> Str(outcome.message), prediction |-> Num(0)]
    ELSE [prediction |-> Num(outcome.n),
          tenure |-> Num(request.tenure),
          monthly |-> Num(request.monthly),
          techsupport |-> Num(request.techsupport)]

\* Mutant: the service keeps state, and answers differently once a request has
\* been served and seen.
predict_stateful(request, outcome) ==
    IF outcome.kind = "raise" \/ earlier # NoRun
    THEN [error |-> Str("model failure")]
    ELSE [prediction |-> Num(outcome.n),
          tenure |-> Num(request.tenure),
          monthly |-> Num(request.monthly),
          techsupport |-> Num(request.techsupport)]

\* The body predict returns, given what make_prediction did.
predict(request, outcome) ==
    IF outcome.kind = "raise"
    THEN [error |-> Str(outcome.message)]
    ELSE [prediction |-> Num(outcome.n),
          tenure |-> Num(request.tenure),
          monthly |-> Num(request.monthly),
          techsupport |-> Num(request.techsupport)]

\* One handled request as the service saw it.
Exchange(request, outcome) ==
    [kind |-> "exchange",
     request |-> request,
     model_calls |-> model_calls(request),
     outcome |-> outcome,
     body |-> predict(request, outcome)]

-----------------------------------------------------------------------------
(* Dashboard: dashboard.py, pure parts *)

Min(a, b) == IF a < b THEN a ELSE b

\* Python's fixed-point formatting of the exact value n/d with no further
\* digits: the nearest integer, a tie going to the even one.
RoundHalfEven(n, d) ==
    LET q == n \div d
        r == n % d
    IN IF 2 * r < d THEN q
       ELSE IF 2 * r > d THEN q + 1
       ELSE IF q % 2 = 0 THEN q ELSE q + 1

\* The request body built from the widgets: float(tenure), float(monthly), float(techsupport).
payload(t, m, s) ==
    [tenure |-> t, monthly |-> m, techsupport |-> IF s THEN 1 ELSE 0]

\* The HTTP call fetch_prediction issues.
fetch_prediction_call(json) ==
    [method |-> "POST", url |-> DEV_API, json |-> json, timeout |-> 5]

\* The HTTP call fetch_prediction_from_production issues.
fetch_prediction_from_production_call(params) ==
    [method |-> "GET", url |-> PROD_API, json |-> params, timeout |-> 20]

\* Mutant: the call is issued a second time.
submission_calls_retry(json) == <<fetch_prediction_call(json), fetch_prediction_call(json)>>

\* The calls one submission issues.
submission_calls(json) == <<fetch_prediction_call(json)>>

\* What fetch_prediction does with what came back: requests.post raises on a
\* timeout or a connection error, raise_for_status raises on a 4xx/5xx status,
\* otherwise the decoded body is returned.
fetch_prediction(r) ==
    IF r.kind \in {"Timeout", "ConnectionError"}
    THEN [kind |-> "raise", exc |-> r.kind]
    ELSE IF r.status >= 400
    THEN [kind |-> "raise", exc |-> "HTTPError"]
    ELSE [kind |-> "return", data |-> r.body]

\* Mutant: the except clause misses the error raised by raise_for_status.
RequestException_narrow == {"Timeout", "ConnectionError"}

\* The exception classes the except clause of the submitted branch catches.
RequestException == {"Timeout", "ConnectionError", "HTTPError"}

\* Tier of the metrics column.
risk_level(p) ==
    IF 10 * p < 3 * Scale THEN "Low Risk"
    ELSE IF 10 * p < 6 * Scale THEN "Medium Risk"
    ELSE "High Risk"

\* Mutant: the recommendation block compares with <= where the metrics use <.
recommendation_inclusive(p) ==
    IF 10 * p <= 3 * Scale THEN "Low Risk"
    ELSE IF 10 * p <= 6 * Scale THEN "Medium Risk"
    ELSE "High Risk"

\* Tier of the recommendation block.
recommendation(p) ==
    IF 10 * p < 3 * Scale THEN "Low Risk"
    ELSE IF 10 * p < 6 * Scale THEN "Medium Risk"
    ELSE "High Risk"

\* Mutant: the score is cut to a whole number instead of rounded.
satisfaction_score_truncated(p) == ((Scale - p) * 100) \div Scale

\* (1 - prediction) * 100 formatted with .0f
satisfaction_score(p) == RoundHalfEven((Scale - p) * 100, Scale)

\* prediction * 100 formatted with .1f, in tenths of a percent
churn_percentage(p) == RoundHalfEven(p * 1000, Scale)

\* monthly * 12 formatted with .0f
annual_charges(m) == RoundHalfEven(m * 12, 1)

\* tenure / 12 formatted with .1f, in tenths of a year
tenure_years(t) == RoundHalfEven(t * 10, 12)

\* Mutant: the new-customer threshold is inclusive.
tenure_insight_inclusive(t) ==
    IF t <= 12 THEN <<[el |-> "info", note |-> "New Customer"]>>
    ELSE IF t > 48 THEN <<[el |-> "info", note |-> "Loyal Customer"]>>
    ELSE <<>>

\* Advisory note of the tenure column.
tenure_insight(t) ==
    IF t < 12 THEN <<[el |-> "info", note |-> "New Customer"]>>
    ELSE IF t > 48 THEN <<[el |-> "info", note |-> "Loyal Customer"]>>
    ELSE <<>>

\* Advisory note of the monthly column.
monthly_insight(m) ==
    IF m > 200 THEN <<[el |-> "info", note |-> "High-value Customer"]>>
    ELSE IF m < 50 THEN <<[el |-> "info", note |-> "Budget-conscious Customer"]>>
    ELSE <<>>

\* The metrics inside the form, rendered by every script run.
FormSection(t, m, s) ==
    <<[el |-> "metric", label |-> "Annual Charges", dollars |-> annual_charges(m)],
      [el |-> "metric", label |-> "Tenure Duration", months |-> t],
      [el |-> "metric", label |-> "Tech Support", active |-> s]>>

\* An exception that leaves the script: Streamlit shows it and stops the run.
Uncaught(exc) == [el |-> "exception", type |-> exc]

\* The three result metrics.
ResultMetrics(p) ==
    <<[el |-> "metric", label |-> "Churn Probability", tenths |-> churn_percentage(p),
       delta |-> risk_level(p)],
      [el |-> "metric", label |-> "Risk Assessment", tier |-> risk_level(p)],
      [el |-> "metric", label |-> "Satisfaction Score", percent |-> satisfaction_score(p)]>>

\* Everything after the progress bar.
ResultTail(t, m, s, data, p) ==
    <<[el |-> "recommendation", tier |-> recommendation(p)],
      [el |-> "details", years |-> tenure_years(t), monthly |-> m,
       annual |-> m * 12, techsupport |-> s, json |-> data],
      [el |-> "subheader", text |-> "Insights"]>>
    \o tenure_insight(t) \o monthly_insight(m)

\* The try block after fetch_prediction returned data.
ResultSection(t, m, s, data) ==
    LET prediction == IF "prediction" \in DOMAIN data THEN data.prediction ELSE Num(0)
        header == [el |-> "subheader", text |-> "Prediction Results"]
    IN  IF prediction.kind = "null"
        THEN <<Uncaught("TypeError")>>                  \* prediction * 100
        ELSE IF prediction.kind = "str"
        THEN <<header, Uncaught("TypeError")>>          \* prediction < 0.3
        ELSE LET p == prediction.n
             IN IF Min(p, Scale) < 0
                THEN <<header>> \o ResultMetrics(p) \o <<Uncaught("StreamlitAPIException")>>
                ELSE <<header>> \o ResultMetrics(p)
                     \o <<[el |-> "progress", value |-> Min(p, Scale)]>>
                     \o ResultTail(t, m, s, data, p)

\* The except clause.
ErrorBanner(exc) ==
    <<[el |-> "error", text |-> "Error calling API", exc |-> exc],
      [el |-> "info", note |-> "Make sure the API server is running"]>>

\* The submitted branch.
SubmittedBranch(t, m, s, r) ==
    LET f == fetch_prediction(r)
    IN  IF f.kind = "raise"
        THEN IF f.exc \in RequestException THEN ErrorBanner(f.exc) ELSE <<Uncaught(f.exc)>>
        ELSE ResultSection(t, m, s, f.data)

SubmitHint == <<[el |-> "info", note |-> "Adjust customer profile above and click Predict Churn Risk"]>>

\* One whole script run.
Script(t, m, s, sub, r) ==
    FormSection(t, m, s) \o (IF sub THEN SubmittedBranch(t, m, s, r) ELSE SubmitHint)

-----------------------------------------------------------------------------
(* What the network can hand back to requests.post besides the service's answer *)

TransportFailures == {[kind |-> "Timeout"], [kind |-> "ConnectionError"]}

ErrorStatuses == {422, 500}

\* 200 bodies not built by predict: missing, null, non-numeric and
\* out-of-range prediction.
ForeignBodies ==
    {[status |-> Str("ok")], [prediction |-> Null], [prediction |-> Str("0.45")],
     [prediction |-> Num(-5)], [prediction |-> Num(600)]}

Response(status, body) == [kind |-> "response", status |-> status, body |-> body]

-----------------------------------------------------------------------------
(* State machine *)

\* Script run without a submission: first load of the page, widgets at their defaults.
LoadPage ==
    /\ pc = "idle"
    /\ tenure' = DefaultTenure
    /\ monthly' = DefaultMonthly
    /\ techsupport' = FALSE
    /\ submitted' = FALSE
    /\ calls' = <<>>
    /\ reply' = NoReply
    /\ handled' = NoExchange
    /\ display' = Script(DefaultTenure, DefaultMonthly, FALSE, FALSE, NoReply)
    /\ UNCHANGED <<pc, runs, earlier>>

\* The user sets the widgets and presses the submit button: the script runs
\* up to the blocking requests.post inside fetch_prediction.
Submit(t, m, s) ==
    /\ pc = "idle"
    /\ runs < MaxRuns
    /\ runs' = runs + 1
    /\ tenure' = t
    /\ monthly' = m
    /\ techsupport' = s
    /\ submitted' = TRUE
    /\ calls' = submission_calls(payload(t, m, s))
    /\ reply' = NoReply
    /\ handled' = NoExchange
    /\ display' = FormSection(t, m, s)
    /\ pc' = "calling"
    /\ UNCHANGED earlier

\* The model is deterministic: for the request of the remembered submission
\* make_prediction does again what it did then.
Deterministic(request, outcome) ==
    (earlier # NoRun /\ earlier.handled # NoExchange /\ earlier.handled.request = request)
        => outcome = earlier.handled.outcome

\* The service handles the dashboard's request.
Predict(outcome) ==
    /\ pc = "calling"
    /\ reply = NoReply
    /\ Deterministic(calls[1].json, outcome)
    /\ handled' = Exchange(calls[1].json, outcome)
    /\ reply' = Response(200, predict(calls[1].json, outcome))
    /\ UNCHANGED <<tenure, monthly, techsupport, submitted, pc, calls, display, runs, earlier>>

\* The service handles a request of some other caller.
DirectPredict(request, outcome) ==
    /\ handled' = Exchange(request, outcome)
    /\ UNCHANGED <<tenure, monthly, techsupport, submitted, pc, calls, reply, display, runs, earlier>>

\* The call times out or the connection fails.
TransportFailure(f) ==
    /\ pc = "calling"
    /\ reply = NoReply
    /\ reply' = f
    /\ UNCHANGED <<tenure, monthly, techsupport, submitted, pc, calls, display, handled, runs, earlier>>

\* The server answers with an error status without running predict.
ErrorStatus(status) ==
    /\ pc = "calling"
    /\ reply = NoReply
    /\ reply' = Response(status, [detail |-> Str("error")])
    /\ UNCHANGED <<tenure, monthly, techsupport, submitted, pc, calls, display, handled, runs, earlier>>

\* Whatever listens on DEV_API answers 200 with a body predict did not build.
ForeignResponse(body) ==
    /\ pc = "calling"
    /\ reply = NoReply
    /\ reply' = Response(200, body)
    /\ UNCHANGED <<tenure, monthly, techsupport, submitted, pc, calls, display, handled, runs, earlier>>

\* The submission just rendered, as the observer sees it.
Run(shown) ==
    [kind |-> "run",
     run |-> runs,
     inputs |-> payload(tenure, monthly, techsupport),
     handled |-> handled,
     reply |-> reply,
     display |-> shown]

\* requests.post returns or raises and the script runs to its end.  The
\* observer may keep the first submission it chooses to.
Render(keep) ==
    /\ pc = "calling"
    /\ reply # NoReply
    /\ display' = Script(tenure, monthly, techsupport, submitted, reply)
    /\ pc' = "idle"
    /\ earlier' = IF keep /\ earlier = NoRun THEN Run(display') ELSE earlier
    /\ UNCHANGED <<tenure, monthly, techsupport, submitted, calls, reply, handled, runs>>

Init ==
    /\ tenure = DefaultTenure
    /\ monthly = DefaultMonthly
    /\ techsupport = FALSE
    /\ submitted = FALSE
    /\ pc = "idle"
    /\ calls = <<>>
    /\ reply = NoReply
    /\ display = Script(DefaultTenure, DefaultMonthly, FALSE, FALSE, NoReply)
    /\ handled = NoExchange
    /\ runs = 0
    /\ earlier = NoRun

\* The dashboard and the service behind it.
Next ==
    \/ LoadPage
    \/ \E t \in Tenures, m \in Monthlies, s \in BOOLEAN : Submit(t, m, s)
    \/ \E outcome \in ModelOutcomes : Predict(outcome)
    \/ \E f \in TransportFailures : TransportFailure(f)
    \/ \E status \in ErrorStatuses : ErrorStatus(status)
    \/ \E body \in ForeignBodies : ForeignResponse(body)
    \/ Render(FALSE)

Spec == Init /\ [][Next]_vars

\* The same, with an observer that keeps one submission to compare later ones with.
NextRepeat ==
    \/ LoadPage
    \/ \E t \in RepeatTenures, m \in RepeatMonthlies, s \in BOOLEAN : Submit(t, m, s)
    \/ \E outcome \in ModelOutcomes : Predict(outcome)
    \/ \E f \in TransportFailures : TransportFailure(f)
    \/ \E status \in ErrorStatuses : ErrorStatus(status)
    \/ \E body \in ForeignBodies : ForeignResponse(body)
    \/ \E keep \in BOOLEAN : Render(keep)

SpecRepeat == Init /\ [][NextRepeat]_vars

\* The service alone, called directly.
NextService ==
    \E request \in DirectRequests, outcome \in ModelOutcomes : DirectPredict(request, outcome)

SpecService == Init /\ [][NextService]_vars

-----------------------------------------------------------------------------
(* Reading the page *)

\* A submission has been rendered to its end.
Rendered == pc = "idle" /\ submitted

\* What the script run rendered below the form.
ResultPart == SubSeq(display, 4, Len(display))

ElNames(seq) == [i \in DOMAIN seq |-> seq[i].el]

IsPrefix(a, b) == Len(a) <= Len(b) /\ SubSeq(b, 1, Len(a)) = a

Metrics(label) ==
    {i \in DOMAIN ResultPart : ResultPart[i].el = "metric" /\ ResultPart[i].label = label}

\* Tiers shown in the metrics and by the recommendation block.
TierLabels == {ResultPart[i].tier : i \in Metrics("Risk Assessment")}
DeltaTiers == {ResultPart[i].delta : i \in Metrics("Churn Probability")}
RecommendationTiers ==
    {ResultPart[i].tier : i \in {j \in DOMAIN ResultPart : ResultPart[j].el = "recommendation"}}
ShownTiers == TierLabels \cup DeltaTiers \cup RecommendationTiers

SatisfactionShown == {ResultPart[i].percent : i \in Metrics("Satisfaction Score")}

\* Notes of the advisory section (the info elements after the "Insights" subheader).
Notes ==
    {ResultPart[i].note : i \in {j \in DOMAIN ResultPart :
        /\ ResultPart[j].el = "info"
        /\ \E k \in 1..(j - 1) : ResultPart[k] = [el |-> "subheader", text |-> "Insights"]}}

ResultElements == {"subheader", "metric", "progress", "recommendation", "details"}

\* The whole result: header, three metrics, progress bar, recommendation,
\* details, advisory section (with its notes, if any), and nothing else.
FullResult ==
    /\ IsPrefix(<<"subheader", "metric", "metric", "metric", "progress",
                  "recommendation", "details", "subheader">>, ElNames(ResultPart))
    /\ \A i \in 9..Len(ResultPart) : ResultPart[i].el = "info"

\* The error banner of the except clause and nothing else.
BannerOnly == ElNames(ResultPart) = <<"error", "info">>

Crashed == \E i \in DOMAIN ResultPart : ResultPart[i].el = "exception"

\* The call came back with status 200 and this kind of body.
Got200 == reply.kind = "response" /\ reply.status = 200
GotErrorBody ==
    Got200 /\ "error" \in DOMAIN reply.body /\ "prediction" \notin DOMAIN reply.body
GotNumber ==
    Got200 /\ "prediction" \in DOMAIN reply.body /\ reply.body.prediction.kind = "num"
TransportFailed ==
    \/ reply \in TransportFailures
    \/ reply.kind = "response" /\ reply.status \notin 200..299

-----------------------------------------------------------------------------
(* Properties *)

\* C1: when make_prediction raises, the body of predict has an error key holding
\* the exception message and no prediction key; when it returns, the body has a
\* prediction key and no error key; so exactly one of the two keys is present.
C1_PredictionXorError ==
    handled # NoExchange =>
        /\ handled.outcome.kind = "raise" =>
              /\ "error" \in DOMAIN handled.body
              /\ handled.body.error = Str(handled.outcome.message)
              /\ "prediction" \notin DOMAIN handled.body
        /\ handled.outcome.kind = "value" =>
              /\ "prediction" \in DOMAIN handled.body
              /\ "error" \notin DOMAIN handled.body
        /\ ("prediction" \in DOMAIN handled.body) # ("error" \in DOMAIN handled.body)

C1_Witness ==
    /\ handled # NoExchange
    /\ handled.outcome.kind = "raise"
    /\ DOMAIN handled.body = {"error"}

\* C2: when the service answers a submission with an error-shaped body (error
\* key, no prediction key, status 200), the dashboard shows a failure and no
\* risk tier.
C2_ErrorBodyShowsNoTier ==
    (Rendered /\ GotErrorBody) => (ShownTiers = {} /\ (BannerOnly \/ Crashed))

\* C3: after any submission the page shows either the whole result or the
\* error banner alone, never a part of the result and never a result element
\* next to an error.
C3_ResultOrBanner ==
    Rendered => (FullResult \/ BannerOnly)

\* C4: the tier shown is decided by the returned prediction alone (below 0.3
\* Low, from 0.3 and below 0.6 Medium, otherwise High), and the tier of the
\* metrics and the tier of the recommendation block are the same tier.
C4_TierOfPrediction ==
    (Rendered /\ GotNumber) =>
        LET p == reply.body.prediction.n
            tier == IF 10 * p < 3 * Scale THEN "Low Risk"
                    ELSE IF 10 * p < 6 * Scale THEN "Medium Risk"
                    ELSE "High Risk"
        IN  /\ TierLabels = {tier}
            /\ DeltaTiers = {tier}
            /\ RecommendationTiers \subseteq {tier}
            /\ FullResult => RecommendationTiers = {tier}
            /\ p = 145 => tier = "Low Risk"
            /\ p \in {150, 295} => tier = "Medium Risk"
            /\ p \in {300, 500} => tier = "High Risk"

C4_Witness ==
    /\ Rendered /\ GotNumber
    /\ reply.body.prediction.n = 150
    /\ RecommendationTiers = {"Medium Risk"}
    /\ TierLabels = {"Medium Risk"}

\* C5: predict calls make_prediction exactly once with exactly the three values
\* of the request, negative ones included, and on success echoes the request's
\* fields and returns the model's value as prediction.
C5_PassThrough ==
    handled # NoExchange =>
        /\ Len(handled.model_calls) = 1
        /\ handled.model_calls[1].tenure = handled.request.tenure
        /\ handled.model_calls[1].MonthlyCharges = handled.request.monthly
        /\ handled.model_calls[1].TechSupport_yes = handled.request.techsupport
        /\ handled.outcome.kind = "value" =>
              /\ handled.body.tenure = Num(handled.request.tenure)
              /\ handled.body.monthly = Num(handled.request.monthly)
              /\ handled.body.techsupport = Num(handled.request.techsupport)
              /\ handled.body.prediction = Num(handled.outcome.n)

C5_Witness ==
    /\ handled # NoExchange
    /\ handled.request.tenure < 0
    /\ handled.request.monthly < 0
    /\ handled.outcome.kind = "value"
    /\ handled.body.tenure = Num(handled.request.tenure)

\* C6: a script run without a submission makes no outbound call; a submission
\* makes exactly one, a POST to the primary endpoint carrying the three current
\* input values, and never a second one or a call on the production path.
C6_OneCallPerSubmission ==
    /\ ~submitted => calls = <<>>
    /\ submitted =>
          /\ Len(calls) = 1
          /\ calls[1].method = "POST"
          /\ calls[1].url = DEV_API
          /\ calls[1].json.tenure = tenure
          /\ calls[1].json.monthly = monthly
          /\ calls[1].json.techsupport = (IF techsupport THEN 1 ELSE 0)
    /\ \A i \in DOMAIN calls : calls[i].url # PROD_API /\ calls[i].method # "GET"

C6_Witness ==
    /\ Rendered
    /\ Len(calls) = 1
    /\ calls[1].json = [tenure |-> 49, monthly |-> 205, techsupport |-> 1]
    /\ reply \in TransportFailures

C8_AdvisoryNotes ==
    (Rendered /\ FullResult) =>
        /\ ("New Customer" \in Notes) <=> (tenure < 12)
        /\ ("Loyal Customer" \in Notes) <=> (tenure > 48)
        /\ ("High-value Customer" \in Notes) <=> (monthly > 200)
        /\ ("Budget-conscious Customer" \in Notes) <=> (monthly < 50)
        /\ Notes \subseteq {"New Customer", "Loyal Customer",
                            "High-value Customer", "Budget-conscious Customer"}

C8_Witness ==
    /\ Rendered /\ FullResult
    /\ tenure = 11 /\ monthly = 205
    /\ Notes = {"New Customer", "High-value Customer"}

AnnualShown ==
    /\ display[1].label = "Annual Charges"
    /\ display[1].dollars = monthly * 12

\* The scenario of tenure 24, monthly 70, no tech support and prediction 0.45.
Scenario ==
    (tenure = 24 /\ monthly = 70 /\ ~techsupport /\ reply.body.prediction.n = 225) =>
        /\ TierLabels = {"Medium Risk"}
        /\ SatisfactionShown = {55}
        /\ display[1].dollars = 840

\* C10 as stated: the annual charge shown is monthly * 12 and the satisfaction
\* score shown is exactly (1 - prediction) * 100.
C10_ExactScore ==
    /\ AnnualShown
    /\ (Rendered /\ GotNumber /\ reply.body.prediction.n \in 0..Scale) =>
          /\ \A percent \in SatisfactionShown :
                percent * Scale = (Scale - reply.body.prediction.n) * 100
          /\ SatisfactionShown # {}
          /\ Scenario

\* C10 amended: the annual charge shown is monthly * 12 and the satisfaction
\* score shown is (1 - prediction) * 100 rounded to the nearest whole number.
C10_RoundedScore ==
    /\ AnnualShown
    /\ (Rendered /\ GotNumber /\ reply.body.prediction.n \in 0..Scale) =>
          /\ \A percent \in SatisfactionShown :
                LET exact == (Scale - reply.body.prediction.n) * 100
                IN  /\ 2 * (percent * Scale - exact) <= Scale
                    /\ 2 * (exact - percent * Scale) <= Scale
          /\ SatisfactionShown # {}
          /\ Scenario

C10_Witness ==
    /\ Rendered /\ GotNumber
    /\ reply.body.prediction.n = 226
    /\ SatisfactionShown = {55}
    /\ monthly = 205 /\ display[1].dollars = 2460

====
